---- MODULE Spec2Model ----
(***************************************************************************)
(* Live-monitoring loops of the reprise CLI: wait_for_build                *)
(* (cli/commands/trigger.rs), wait_for_pipeline and                        *)
(* get_pipeline_with_retry (cli/commands/pipeline.rs),                     *)
(* watch_build_with_app, watch_pipeline and follow_build_log               *)
(* (cli/commands/url.rs), follow_log (cli/commands/build.rs, log.rs).      *)
(*                                                                         *)
(* One behaviour is one invocation of one loop (or one call of             *)
(* get_pipeline_with_retry on its own).  The remote service is the         *)
(* environment: every fetch draws its outcome from a small set.  The       *)
(* Ctrl+C handler is an asynchronous action that stores true in the        *)
(* interrupt flag.  Standard output is taken to be writable: the Io error  *)
(* path of writeln!/flush is not part of this model.                       *)
(*                                                                         *)
(* Further specifications over the same variables, each leaving the        *)
(* others' variables at rest: HandlerSpec (setup_interrupt_handler called  *)
(* repeatedly in one process, cli/commands/common.rs), ExitSpec (main      *)
(* turning the error of run() into the exit status, main.rs, error.rs),    *)
(* CacheSpec (AppCache over a readable and writable cache file,            *)
(* cache/apps.rs), CliSpec (one invocation of the binary from run() to     *)
(* the entry of a monitoring loop and its return, main.rs and the command  *)
(* functions; every combination of the flags the command functions read),  *)
(* WatchSpec (watch_builds, cli/commands/builds.rs, with a standard output *)
(* whose writes can fail).                                                 *)
(***************************************************************************)
EXTENDS Integers, Sequences, FiniteSets, TLC

\* ---------------------------------------------------------------- bounds
MaxPolls == 3          \* loop iterations explored per invocation
MaxRetriesArg == 5     \* largest max_retries handed to a bare get_pipeline_with_retry call
MaxLogLen == 2         \* characters in a fetched log
MaxSetups == 3         \* calls of setup_interrupt_handler in one process
MaxSignals == 3        \* interrupt signals delivered to one process
MaxTime == 3           \* largest clock reading, in seconds since the epoch
MaxTtl == 2            \* largest ttl_secs given to AppCache::with_ttl

\* ------------------------------------------------------- program constants
WaitMaxRetries == 5    \* get_pipeline_with_retry(client, app_slug, pipeline_id, 5)

\* status codes reported by the remote service (Build.status / Pipeline.status: i32)
StatusCodes == {-1, 0, 1, 2, 3, 4, 99}

\* errors a client call can return: RepriseError::Api{status}, Http, Json
FetchErrors ==
    [kind : {"Api"}, status : {401, 404, 429, 500, 503}]
        \cup [kind : {"Http", "Json"}, status : {0}]

LogNotAvailable == [kind |-> "LogNotAvailable", status |-> 0]
NoErr == [kind |-> "none", status |-> 0]

\* characters of a log text; "\n" is the line terminator
Chars == {"a", "\n"}
LogContents == UNION {[1..n -> Chars] : n \in 0..MaxLogLen}

WaitModes == {"wait_for_build", "wait_for_pipeline"}
WatchModes == {"watch_build_with_app", "watch_pipeline"}
PollModes == WaitModes \cup WatchModes
LoopModes == PollModes \cup {"follow_log"}
Modes == LoopModes \cup {"get_pipeline_with_retry"}

\* variant: watch_pipeline fetching through get_pipeline_with_retry as well
RetryModesWithWatch ==
    {"wait_for_pipeline", "get_pipeline_with_retry", "watch_pipeline"}

\* variant: the follow loops fetching the status through the retry wrapper
RetryModesWithFollow ==
    {"wait_for_pipeline", "get_pipeline_with_retry", "follow_log"}

\* the call sites whose status fetch goes through get_pipeline_with_retry
RetryModes == {"wait_for_pipeline", "get_pipeline_with_retry"}

VARIABLES
    mode,              \* which function this invocation runs
    send_notification, \* the --notify flag
    max_retries,       \* argument of get_pipeline_with_retry
    pc,                \* position in the loop
    interrupted,       \* the AtomicBool the Ctrl+C handler stores into
    attempt,           \* get_pipeline_with_retry: let mut attempt
    last_status,       \* watch loops: let mut last_status
    last_line_count,   \* follow loops: let mut last_line_count
    last_snap,         \* the snapshot returned by the latest successful status fetch
    polls,             \* loop iterations started
    calls,             \* remote calls issued so far
    requests,          \* the client methods called so far
    retry_log,         \* calls and backoff sleeps of the current status fetch
    retries_used,      \* backoff sleeps taken by earlier iterations
    iter_trace,        \* the steps of the current iteration, in order
    interrupt_at,      \* where the loop was, and how many calls it had made, when Ctrl+C arrived
    fetched,           \* statuses returned by the successful status fetches, in order
    transitions,       \* watch loops: status lines written so far
    emitted,           \* follow loops: log lines written so far
    fetched_lines,     \* follow loops: lines of the latest successfully fetched log
    grew_only,         \* follow loops: every fetched log extended the previous one line-wise
    log_result,        \* follow loops: outcome of the latest log fetch
    log_err,           \* follow loops: the client error of the log fetch that ended the loop
    notified,          \* snapshots the completion notifier was invoked with
    notify_outcome,    \* what the notification sink did with the notification
    exit,              \* which exit of the loop was taken
    result             \* the value returned to the caller

loop_vars == <<mode, send_notification, max_retries, pc, interrupted, attempt,
               last_status, last_line_count, last_snap, polls, calls, requests,
               retry_log, retries_used, iter_trace, interrupt_at, fetched,
               transitions, emitted, fetched_lines, grew_only, log_result,
               log_err, notified, notify_outcome, exit, result>>

\* a process that calls setup_interrupt_handler more than once
VARIABLES
    h_tokens,          \* the flag returned by each call, in call order
    h_observed,        \* per call: its caller has read true from its flag
    h_handler,         \* the call whose closure the process-wide handler runs; 0: none
    h_rejected,        \* set_handler calls that returned Err
    h_signals,         \* interrupt signals delivered
    h_panicked         \* a call panicked

handler_vars == <<h_tokens, h_observed, h_handler, h_rejected, h_signals, h_panicked>>

\* main: the error run() returned and the exit status of the process
VARIABLES
    e_origin,          \* what produced the error
    e_err,             \* the RepriseError returned by run()
    e_code             \* the exit status, -1 while the process runs

code_vars == <<e_origin, e_err, e_code>>

\* AppCache and its cache file
VARIABLES
    c_ttl,             \* AppCache.ttl, in seconds
    c_now,             \* the system clock, in seconds since the epoch
    c_file,            \* the cache file: <<>> when absent, else <<its text>>
    c_got,             \* what get returned, when get was the latest operation
    c_stored           \* the list and time of the latest set no clear followed

cache_vars == <<c_ttl, c_now, c_file, c_got, c_stored>>

\* one invocation of the binary
VARIABLES
    cli_cmd,           \* the command (and the kind of URL, for url)
    cli_args,          \* the flags
    cli_format,        \* --output
    cli_app_ok,        \* an app slug is given or configured
    cli_pc,            \* the function about to run
    cli_calls,         \* client calls made outside the loops, in order
    cli_job,           \* the identifier returned by the trigger call
    cli_loop,          \* the loop called and the identifier it polls
    cli_loops,         \* monitoring loops entered
    cli_handlers,      \* ctrlc::set_handler calls
    cli_out            \* what run() returned

cli_vars == <<cli_cmd, cli_args, cli_format, cli_app_ok, cli_pc, cli_calls,
              cli_job, cli_loop, cli_loops, cli_handlers, cli_out>>

\* watch_builds
VARIABLES
    b_format,          \* --output
    b_pc,              \* position in the loop
    b_interrupted,     \* the AtomicBool the Ctrl+C handler stores into
    b_polls,           \* loop iterations started
    b_fetch,           \* outcome of the latest fetch_and_format_builds call
    b_printed,         \* the errors written to standard error, in order
    b_trace,           \* the steps of the current iteration, in order
    b_exit,            \* how the loop ended
    b_result           \* the value returned to the caller

builds_vars == <<b_format, b_pc, b_interrupted, b_polls, b_fetch, b_printed,
                 b_trace, b_exit, b_result>>

other_vars == <<handler_vars, code_vars, cache_vars, cli_vars, builds_vars>>

vars == <<loop_vars, other_vars>>

\* ------------------------------------------------------------ pure helpers
NoSnap == [status |-> 0, call |-> 0]
Snapshot(s, c) == [status |-> s, call |-> c]

NoResult == [tag |-> "none", snap |-> NoSnap, err |-> NoErr]
OkEmpty == [tag |-> "Ok", snap |-> NoSnap, err |-> NoErr]      \* Ok(String::new())
OkRendered(snap) == [tag |-> "Ok", snap |-> snap, err |-> NoErr] \* Ok(output) built from the snapshot
ErrResult(e) == [tag |-> "Err", snap |-> NoSnap, err |-> e]

CallEv(okflag, e) == [ev |-> "call", ok |-> okflag, err |-> e, secs |-> 0]
SleepEv(d) == [ev |-> "sleep", ok |-> FALSE, err |-> NoErr, secs |-> d]

\* variant: only the known finished codes 1, 2, 3 count as not running
is_running_unknown_as_running(status) == status \notin {1, 2, 3}

\* variant: only Success counts as finished
is_running_until_success(status) == status # 1

\* variant: no status counts as running
is_running_never(status) == FALSE

\* Build::is_running / Pipeline::is_running
is_running(status) == status = 0

\* variant: 429 Too Many Requests retried as well
should_retry_429(e) == e.kind = "Api" /\ e.status >= 429

\* variant: every API error retried, whatever its status
should_retry_any_api(e) == e.kind = "Api"

\* matches!(&e, RepriseError::Api { status, .. } if *status >= 500)
should_retry(e) == e.kind = "Api" /\ e.status >= 500

\* variant: attempt <= max_retries
CanRetryInclusive(e, att, maxr) == should_retry(e) /\ att <= maxr

\* variant: the retry loop gives up once the interrupt flag is set
CanRetryUnlessInterrupted(e, att, maxr) ==
    should_retry(e) /\ att < maxr /\ ~interrupted

\* should_retry && attempt < max_retries
CanRetry(e, att, maxr) == should_retry(e) /\ att < maxr

\* variant: 1 << attempt
BackoffFromTwo(att) == 2 ^ att

\* Duration::from_secs(1 << (attempt - 1)); attempt <= max_retries < 64 here,
\* so the u64 shift does not overflow
Backoff(att) == 2 ^ (att - 1)

\* variant: the counter outlives the call
InitialAttemptCarried(prev) == prev

\* let mut attempt = 0;
InitialAttempt(prev) == 0

\* str::lines(): split at "\n"; a final line terminator adds no empty line
RECURSIVE SplitNl(_, _, _)
SplitNl(s, i, cur) ==
    IF i > Len(s) THEN <<cur>>
    ELSE IF s[i] = "\n" THEN <<cur>> \o SplitNl(s, i + 1, <<>>)
    ELSE SplitNl(s, i + 1, Append(cur, s[i]))

Lines(content) ==
    LET pieces == SplitNl(content, 1, <<>>)
    IN  IF pieces[Len(pieces)] = <<>>
        THEN SubSeq(pieces, 1, Len(pieces) - 1)
        ELSE pieces

\* variant: slice taken from last_line_count + 1
NewLinesOffByOne(lines, n) ==
    IF n + 1 <= Len(lines) THEN SubSeq(lines, n + 2, Len(lines)) ELSE <<>>

\* variant: a shorter log is printed again from its first line
NewLinesRestartOnShrink(lines, n) ==
    IF n <= Len(lines) THEN SubSeq(lines, n + 1, Len(lines)) ELSE lines

\* lines.get(last_line_count..).unwrap_or_default()
NewLines(lines, n) ==
    IF n <= Len(lines) THEN SubSeq(lines, n + 1, Len(lines)) ELSE <<>>

\* variant: the count advanced by one for each batch of new lines
NextLineCountPerBatch(new_lines, lines, n) ==
    IF new_lines # <<>> THEN n + 1 ELSE n

\* variant: last_line_count = lines.len() outside the if
NextLineCountAlways(new_lines, lines, n) == Len(lines)

\* if !new_lines.is_empty() { ...; last_line_count = lines.len(); }
NextLineCount(new_lines, lines, n) ==
    IF new_lines # <<>> THEN Len(lines) ELSE n

\* variant: the notifier called a second time for the same snapshot
NotifyOnCompletionTwice(flag, seq, snap) ==
    IF flag THEN seq \o <<snap, snap>> ELSE seq

\* if send_notification { build_completed(..) / notify_pipeline_completed(..) }
NotifyOnCompletion(flag, seq, snap) ==
    IF flag THEN Append(seq, snap) ELSE seq

IsPrefix(s, t) == Len(s) <= Len(t) /\ SubSeq(t, 1, Len(s)) = s

\* get_full_log can also fail on a log URL the allow-list rejects
InvalidArgument == [kind |-> "InvalidArgument", status |-> 0]
LogFetchErrors == FetchErrors \cup {InvalidArgument}

\* variant: the loop reads a flag the handler never stores into
is_interrupted_stale(flag) == FALSE

\* is_interrupted / interrupted.load(Ordering::SeqCst)
is_interrupted(flag) == flag

\* variant: cancellation reported to the caller as an error
CancelledReturnErr(snap) == ErrResult([kind |-> "Io", status |-> 0])

\* the interrupt branch: return Ok(String::new()) / break; Ok(String::new())
CancelledReturn(snap) == OkEmpty

\* variant: the remote job aborted when the user interrupts
AbortOnInterrupt(m) ==
    {IF m \in {"wait_for_pipeline", "watch_pipeline"}
     THEN "abort_pipeline" ELSE "abort_build"}

\* the client methods the interrupt branch calls: it only prints and returns
RequestsOnInterrupt(m) == {}

\* the client method of the status fetch
StatusRequest(m) ==
    IF m \in {"wait_for_pipeline", "watch_pipeline", "get_pipeline_with_retry"}
    THEN "get_pipeline" ELSE "get_build"

\* variant: a status line on every poll
StatusChangedAlways(s, last) == TRUE

\* if build.status != last_status / if pipeline.status != last_status
StatusChanged(s, last) == s # last

\* variant: no sleep between the check and the fetch
AfterCheckNoSleep(m) == "fetch_status"

\* what follows the interrupt check: the wait loops sleep, the others fetch
AfterCheck(m) == IF m \in WaitModes THEN "sleep" ELSE "fetch_status"

\* variant: a failed log fetch always ends the loop
LogErrorNeverTolerated(status) == FALSE

\* Err(_) => if build.data.is_running() { sleep; continue }
LogErrorTolerated(status) == is_running(status)

\* variant: the client's error handed on as it is
LogErrorPropagated(e) == e

\* return Err(RepriseError::LogNotAvailable(..))
LogErrorReturned(e) == LogNotAvailable

\* variant: a second signal flips the flag back
HandlerToggle(flag) == ~flag

\* the handler closure: interrupted_clone.store(true, Ordering::SeqCst)
HandlerStore(flag) == TRUE

\* Arc::new(AtomicBool::new(false))
NewToken == FALSE

\* variant: a notification the sink refused turned into the loop's error
NotificationResultPropagated(delivered, res) ==
    IF delivered THEN res ELSE ErrResult([kind |-> "Io", status |-> 0])

\* let _ = Notification::new()...show() / if let Err(e) = ...show() { eprintln! }:
\* the sink's answer is dropped and the loop goes on to build its result
NotificationResult(delivered, res) == res

\* what the sink did: nothing asked of it, notification shown, or show() failed
SinkOutcome(flag, shown, prev) ==
    IF flag THEN (IF shown THEN "shown" ELSE "failed") ELSE prev

\* variant: the notifier called before the new lines are written
LogStepsNotifyFirst(new_lines, finished, flag) ==
    <<"log">>
        \o (IF finished /\ flag THEN <<"notify">> ELSE <<>>)
        \o (IF new_lines # <<>> THEN <<"emit">> ELSE <<>>)
        \o (IF finished THEN <<"return">> ELSE <<>>)

\* follow loops, the statements after a successful log fetch in source
\* order: the writeln! loop over new_lines, then inside
\* `if !is_running()` the notifier and the break to the return
LogSteps(new_lines, finished, flag) ==
    <<"log">>
        \o (IF new_lines # <<>> THEN <<"emit">> ELSE <<>>)
        \o (IF finished /\ flag THEN <<"notify">> ELSE <<>>)
        \o (IF finished THEN <<"return">> ELSE <<>>)

\* variant: the flag read once more before the terminal return
TerminalReturnUnlessInterrupted(flag, snap) ==
    IF flag THEN OkEmpty ELSE OkRendered(snap)

\* wait loops: `return match format { .. Ok(output) .. }` in the
\* `if !is_running()` branch, which does not read the interrupt flag
TerminalReturn(flag, snap) == OkRendered(snap)

\* the variables of the handler process at rest
HandlerIdle ==
    /\ h_tokens = <<>>
    /\ h_observed = <<>>
    /\ h_handler = 0
    /\ h_rejected = 0
    /\ h_signals = 0
    /\ h_panicked = FALSE

\* the variables of the exiting process at rest
CodeIdle ==
    /\ e_origin = "none"
    /\ e_err = NoErr
    /\ e_code = -1

NotStored == [some |-> FALSE, apps |-> <<>>, at |-> 0]
NoGet == [tag |-> "unset", apps |-> <<>>]

\* the variables of the cache at rest
CacheIdle ==
    /\ c_ttl = 0
    /\ c_now = 0
    /\ c_file = <<>>
    /\ c_got = NoGet
    /\ c_stored = NotStored

FlagNames == {"wait", "follow", "watch", "logs", "artifacts", "abort", "retry",
              "retry_wait", "download", "browser", "set_default"}
NoFlags == [f \in FlagNames |-> FALSE]
NoLoop == [name |-> "none", id |-> "none"]

\* the variables of the invocation at rest
CliIdle ==
    /\ cli_cmd = "none"
    /\ cli_args = NoFlags
    /\ cli_format = "Pretty"
    /\ cli_app_ok = FALSE
    /\ cli_pc = "done"
    /\ cli_calls = <<>>
    /\ cli_job = "none"
    /\ cli_loop = NoLoop
    /\ cli_loops = 0
    /\ cli_handlers = 0
    /\ cli_out = "none"

NoFetch == [tag |-> "none", err |-> NoErr]

\* the variables of watch_builds at rest
BuildsIdle ==
    /\ b_format = "Pretty"
    /\ b_pc = "done"
    /\ b_interrupted = FALSE
    /\ b_polls = 0
    /\ b_fetch = NoFetch
    /\ b_printed = <<>>
    /\ b_trace = <<>>
    /\ b_exit = "none"
    /\ b_result = NoResult

OthersIdle == HandlerIdle /\ CodeIdle /\ CacheIdle /\ CliIdle /\ BuildsIdle

\* -------------------------------------------------------------------- Init
Init ==
    /\ OthersIdle
    /\ mode \in Modes
    /\ send_notification \in (IF mode \in LoopModes THEN BOOLEAN ELSE {FALSE})
    /\ max_retries \in (IF mode = "get_pipeline_with_retry" THEN 0..MaxRetriesArg
                        ELSE IF mode \in RetryModes THEN {WaitMaxRetries}
                        ELSE {0})
    /\ pc = IF mode = "get_pipeline_with_retry" THEN "fetch_status" ELSE "check"
    /\ interrupted = NewToken
    /\ attempt = InitialAttempt(0)
    /\ last_status = -1
    /\ last_line_count = 0
    /\ last_snap = NoSnap
    /\ polls = 0
    /\ calls = 0
    /\ requests = {}
    /\ retry_log = <<>>
    /\ retries_used = 0
    /\ iter_trace = <<>>
    /\ interrupt_at = [pc |-> "none", calls |-> 0]
    /\ fetched = <<>>
    /\ transitions = <<>>
    /\ emitted = <<>>
    /\ fetched_lines = <<>>
    /\ grew_only = TRUE
    /\ log_result = "none"
    /\ log_err = NoErr
    /\ notified = <<>>
    /\ notify_outcome = "none"
    /\ exit = "none"
    /\ result = NoResult

\* ----------------------------------------------------------------- actions

\* the ctrlc handler runs, once for every signal delivered
Interrupt ==
    /\ mode \in LoopModes
    /\ pc # "done"
    /\ interrupted' = HandlerStore(interrupted)
    /\ interrupt_at' = IF interrupted THEN interrupt_at
                       ELSE [pc |-> pc, calls |-> calls]
    /\ UNCHANGED other_vars
    /\ UNCHANGED <<mode, send_notification, max_retries, pc, attempt,
                   last_status, last_line_count, last_snap, polls, calls,
                   requests, retry_log, retries_used, iter_trace, fetched,
                   transitions, emitted, fetched_lines, grew_only, log_result,
                   log_err, notified, notify_outcome, exit, result>>

\* top of the loop: if interrupted.load(..) { return Ok(String::new()) / break }
CheckInterrupt ==
    /\ pc = "check"
    /\ is_interrupted(interrupted) \/ polls < MaxPolls
    /\ iter_trace' = <<"check">>
    /\ IF is_interrupted(interrupted)
       THEN /\ pc' = "done"
            /\ exit' = "cancelled"
            /\ result' = CancelledReturn(last_snap)
            /\ requests' = requests \cup RequestsOnInterrupt(mode)
            /\ UNCHANGED <<polls, retry_log, retries_used>>
       ELSE /\ pc' = AfterCheck(mode)
            /\ polls' = polls + 1
            /\ retry_log' = <<>>
            /\ retries_used' = retries_used + attempt
            /\ UNCHANGED <<exit, result, requests>>
    /\ UNCHANGED other_vars
    /\ UNCHANGED <<mode, send_notification, max_retries, interrupted, attempt,
                   last_status, last_line_count, last_snap, calls,
                   interrupt_at, fetched, transitions, emitted, fetched_lines,
                   grew_only, log_result, log_err, notified, notify_outcome>>

\* wait loops: thread::sleep(interval) before the status fetch; in
\* wait_for_pipeline the fetch then enters get_pipeline_with_retry
Sleep ==
    /\ pc = "sleep"
    /\ pc' = "fetch_status"
    /\ iter_trace' = Append(iter_trace, "sleep")
    /\ attempt' = IF mode \in RetryModes THEN InitialAttempt(attempt) ELSE attempt
    /\ UNCHANGED other_vars
    /\ UNCHANGED <<mode, send_notification, max_retries, interrupted,
                   last_status, last_line_count, last_snap, polls, calls,
                   requests, retry_log, retries_used, interrupt_at, fetched,
                   transitions, emitted, fetched_lines, grew_only, log_result,
                   log_err, notified, notify_outcome, exit, result>>

\* the status fetch (get_build / get_pipeline) returns Ok with status s
StatusOk(s, shown) ==
    /\ pc = "fetch_status"
    /\ LET snap == Snapshot(s, calls + 1) IN
       /\ calls' = calls + 1
       /\ requests' = requests \cup {StatusRequest(mode)}
       /\ retry_log' = Append(retry_log, CallEv(TRUE, NoErr))
       /\ iter_trace' = Append(iter_trace, "status")
       /\ fetched' = Append(fetched, s)
       /\ last_snap' = snap
       /\ CASE mode = "get_pipeline_with_retry" ->
                 /\ pc' = "done"
                 /\ exit' = "returned"
                 /\ result' = OkRendered(snap)
                 /\ UNCHANGED <<last_status, transitions, notified, notify_outcome>>
            [] mode \in WaitModes ->
                 /\ IF ~is_running(s)
                    THEN /\ notified' = NotifyOnCompletion(send_notification, notified, snap)
                         /\ notify_outcome' = SinkOutcome(send_notification, shown, notify_outcome)
                         /\ pc' = "done"
                         /\ exit' = "terminal"
                         /\ result' = NotificationResult(~send_notification \/ shown,
                                                         TerminalReturn(interrupted, snap))
                    ELSE /\ pc' = "check"
                         /\ UNCHANGED <<notified, notify_outcome, exit, result>>
                 /\ UNCHANGED <<last_status, transitions>>
            [] mode \in WatchModes ->
                 /\ IF StatusChanged(s, last_status)
                    THEN /\ transitions' = Append(transitions, s)
                         /\ last_status' = s
                    ELSE UNCHANGED <<transitions, last_status>>
                 /\ IF ~is_running(s)
                    THEN /\ notified' = NotifyOnCompletion(send_notification, notified, snap)
                         /\ notify_outcome' = SinkOutcome(send_notification, shown, notify_outcome)
                         /\ pc' = "done"
                         /\ exit' = "terminal"
                         /\ result' = NotificationResult(~send_notification \/ shown, OkEmpty)
                    ELSE /\ pc' = "interval_sleep"
                         /\ UNCHANGED <<notified, notify_outcome, exit, result>>
            [] mode = "follow_log" ->
                 /\ pc' = "fetch_log"
                 /\ UNCHANGED <<last_status, transitions, notified, notify_outcome,
                                exit, result>>
    /\ UNCHANGED other_vars
    /\ UNCHANGED <<mode, send_notification, max_retries, interrupted, attempt,
                   last_line_count, polls, retries_used, interrupt_at, emitted,
                   fetched_lines, grew_only, log_result, log_err>>

\* the status fetch returns Err(e)
StatusErr(e) ==
    /\ pc = "fetch_status"
    /\ calls' = calls + 1
    /\ requests' = requests \cup {StatusRequest(mode)}
    /\ iter_trace' = Append(iter_trace, "status")
    /\ IF mode \in RetryModes /\ CanRetry(e, attempt, max_retries)
       THEN /\ attempt' = attempt + 1
            /\ retry_log' = retry_log \o <<CallEv(FALSE, e), SleepEv(Backoff(attempt + 1))>>
            /\ pc' = "backoff"
            /\ UNCHANGED <<exit, result>>
       ELSE /\ retry_log' = Append(retry_log, CallEv(FALSE, e))
            /\ pc' = "done"
            /\ exit' = "error"
            /\ result' = ErrResult(e)
            /\ UNCHANGED attempt
    /\ UNCHANGED other_vars
    /\ UNCHANGED <<mode, send_notification, max_retries, interrupted,
                   last_status, last_line_count, last_snap, polls,
                   retries_used, interrupt_at, fetched, transitions, emitted,
                   fetched_lines, grew_only, log_result, log_err, notified,
                   notify_outcome>>

\* get_pipeline_with_retry: thread::sleep(backoff); continue
BackoffSleep ==
    /\ pc = "backoff"
    /\ pc' = "fetch_status"
    /\ iter_trace' = Append(iter_trace, "backoff")
    /\ UNCHANGED other_vars
    /\ UNCHANGED <<mode, send_notification, max_retries, interrupted, attempt,
                   last_status, last_line_count, last_snap, polls, calls,
                   requests, retry_log, retries_used, interrupt_at, fetched,
                   transitions, emitted, fetched_lines, grew_only, log_result,
                   log_err, notified, notify_outcome, exit, result>>

\* follow loops: get_full_log returns Ok(content)
LogOk(content, shown) ==
    /\ pc = "fetch_log"
    /\ LET lines == Lines(content)
           new_lines == NewLines(lines, last_line_count)
       IN  /\ calls' = calls + 1
           /\ requests' = requests \cup {"get_full_log"}
           /\ iter_trace' = iter_trace \o LogSteps(new_lines, ~is_running(last_snap.status),
                                                   send_notification)
           /\ emitted' = emitted \o new_lines
           /\ last_line_count' = NextLineCount(new_lines, lines, last_line_count)
           /\ grew_only' = (grew_only /\ IsPrefix(fetched_lines, lines))
           /\ fetched_lines' = lines
           /\ log_result' = "ok"
    /\ IF ~is_running(last_snap.status)
       THEN /\ notified' = NotifyOnCompletion(send_notification, notified, last_snap)
            /\ notify_outcome' = SinkOutcome(send_notification, shown, notify_outcome)
            /\ pc' = "done"
            /\ exit' = "terminal"
            /\ result' = NotificationResult(~send_notification \/ shown, OkEmpty)
       ELSE /\ pc' = "interval_sleep"
            /\ UNCHANGED <<notified, notify_outcome, exit, result>>
    /\ UNCHANGED other_vars
    /\ UNCHANGED <<mode, send_notification, max_retries, interrupted, attempt,
                   last_status, last_snap, polls, retry_log, retries_used,
                   interrupt_at, fetched, transitions, log_err>>

\* follow loops: get_full_log returns Err(_)
LogErr(e) ==
    /\ pc = "fetch_log"
    /\ calls' = calls + 1
    /\ requests' = requests \cup {"get_full_log"}
    /\ iter_trace' = Append(iter_trace, "log")
    /\ log_result' = "err"
    /\ IF LogErrorTolerated(last_snap.status)
       THEN /\ pc' = "interval_sleep"
            /\ UNCHANGED <<exit, result, log_err>>
       ELSE /\ pc' = "done"
            /\ log_err' = e
            /\ exit' = "error"
            /\ result' = ErrResult(LogErrorReturned(e))
    /\ UNCHANGED other_vars
    /\ UNCHANGED <<mode, send_notification, max_retries, interrupted, attempt,
                   last_status, last_line_count, last_snap, polls, retry_log,
                   retries_used, interrupt_at, fetched, transitions, emitted,
                   fetched_lines, grew_only, notified, notify_outcome>>

\* watch and follow loops: thread::sleep(interval) at the end of an iteration
IntervalSleep ==
    /\ pc = "interval_sleep"
    /\ pc' = "check"
    /\ iter_trace' = Append(iter_trace, "interval_sleep")
    /\ UNCHANGED other_vars
    /\ UNCHANGED <<mode, send_notification, max_retries, interrupted, attempt,
                   last_status, last_line_count, last_snap, polls, calls,
                   requests, retry_log, retries_used, interrupt_at, fetched,
                   transitions, emitted, fetched_lines, grew_only, log_result,
                   log_err, notified, notify_outcome, exit, result>>

Next ==
    \/ Interrupt
    \/ CheckInterrupt
    \/ Sleep
    \/ \E s \in StatusCodes, shown \in BOOLEAN : StatusOk(s, shown)
    \/ \E e \in FetchErrors : StatusErr(e)
    \/ BackoffSleep
    \/ \E content \in LogContents, shown \in BOOLEAN : LogOk(content, shown)
    \/ \E e \in LogFetchErrors : LogErr(e)
    \/ IntervalSleep

Spec == Init /\ [][Next]_vars

\* the variables of the monitoring loops at rest
LoopIdle ==
    /\ mode = "none"
    /\ send_notification = FALSE
    /\ max_retries = 0
    /\ pc = "done"
    /\ interrupted = FALSE
    /\ attempt = 0
    /\ last_status = -1
    /\ last_line_count = 0
    /\ last_snap = NoSnap
    /\ polls = 0
    /\ calls = 0
    /\ requests = {}
    /\ retry_log = <<>>
    /\ retries_used = 0
    /\ iter_trace = <<>>
    /\ interrupt_at = [pc |-> "none", calls |-> 0]
    /\ fetched = <<>>
    /\ transitions = <<>>
    /\ emitted = <<>>
    /\ fetched_lines = <<>>
    /\ grew_only = TRUE
    /\ log_result = "none"
    /\ log_err = NoErr
    /\ notified = <<>>
    /\ notify_outcome = "none"
    /\ exit = "none"
    /\ result = NoResult

TypeOK ==
    /\ mode \in Modes
    /\ pc \in {"check", "sleep", "fetch_status", "backoff", "fetch_log",
               "interval_sleep", "done"}
    /\ attempt \in 0..(MaxRetriesArg + WaitMaxRetries)
    /\ last_line_count \in 0..(MaxLogLen + 1)
    /\ polls \in 0..MaxPolls
    /\ requests \subseteq {"get_build", "get_pipeline", "get_full_log",
                           "abort_build", "abort_pipeline"}

\* ------------------------------------------------- helpers of the properties
Transient5xx(e) == e.kind = "Api" /\ e.status >= 500

CallsIn(log) == Cardinality({i \in 1..Len(log) : log[i].ev = "call"})
SleepsIn(log) == Cardinality({i \in 1..Len(log) : log[i].ev = "sleep"})

RECURSIVE SumSecs(_)
SumSecs(log) == IF log = <<>> THEN 0 ELSE log[1].secs + SumSecs(Tail(log))

\* the sleeps of the log, in order
RECURSIVE SleepSecs(_)
SleepSecs(log) ==
    IF log = <<>> THEN <<>>
    ELSE IF log[1].ev = "sleep" THEN <<log[1].secs>> \o SleepSecs(Tail(log))
    ELSE SleepSecs(Tail(log))

\* ------------------------------------------------------------------ claims

C2_NotifiedExactlyOnTerminal ==
    (mode \in LoopModes /\ send_notification) =>
        /\ Len(notified) <= 1
        /\ exit = "terminal" => notified = <<last_snap>>
        /\ exit \in {"none", "cancelled", "error"} => notified = <<>>

C2_Witness ==
    /\ mode = "follow_log"
    /\ send_notification
    /\ polls = 2
    /\ exit = "terminal"
    /\ last_snap.status = 2
    /\ notified = <<last_snap>>

C4_ShrinkEmitsNothing ==
    [][(/\ pc = "fetch_log"
        /\ calls' = calls + 1
        /\ log_result' = "ok"
        /\ Len(fetched_lines') < last_line_count)
       => /\ emitted' = emitted
          /\ last_line_count' = last_line_count
          /\ result'.tag # "Err"
          /\ IF last_snap.status = 0
             THEN pc' = "interval_sleep" /\ exit' = "none"
             ELSE pc' = "done" /\ exit' = "terminal" /\ result' = OkEmpty]_vars

C4_Witness ==
    /\ mode = "follow_log"
    /\ log_result = "ok"
    /\ Len(fetched_lines) < last_line_count
    /\ Len(emitted) = last_line_count
    /\ pc = "interval_sleep"

\* C5: within one follow_log run last_line_count never decreases, whatever
\* mix of growing logs, shrunken logs and failed log fetches occurs.
C5_LineCountMonotone ==
    [][mode = "follow_log" => last_line_count' >= last_line_count]_vars

C5_Witness ==
    /\ mode = "follow_log"
    /\ polls = 3
    /\ log_result = "err"
    /\ ~grew_only
    /\ Len(fetched_lines) < last_line_count

\* C6: in get_pipeline_with_retry, a fetch that succeeds after k transient
\* failures (k <= max_retries) made k + 1 attempts separated by exactly k
\* sleeps of 1, 2, 4, ..., 2^(k-1) seconds in that order, and the success
\* value is returned; for k = 4 the sleeps add up to 15.
C6_BackoffSequence ==
    (mode \in RetryModes /\ retry_log # <<>> /\ retry_log[Len(retry_log)].ok) =>
        LET k == (Len(retry_log) - 1) \div 2 IN
        /\ Len(retry_log) = 2 * k + 1
        /\ k <= max_retries
        /\ \A i \in 1..k :
              /\ retry_log[2 * i - 1].ev = "call"
              /\ ~retry_log[2 * i - 1].ok
              /\ Transient5xx(retry_log[2 * i - 1].err)
              /\ retry_log[2 * i].ev = "sleep"
              /\ retry_log[2 * i].secs = 2 ^ (i - 1)
        /\ retry_log[2 * k + 1].ev = "call"
        /\ last_snap.call = calls
        /\ mode = "get_pipeline_with_retry" =>
              (pc = "done" /\ result = OkRendered(last_snap))
        /\ k = 4 => SumSecs(retry_log) = 15

C6_Witness ==
    /\ mode = "get_pipeline_with_retry"
    /\ exit = "returned"
    /\ result.tag = "Ok"
    /\ SleepSecs(retry_log) = <<1, 2, 4, 8>>

\* C7: in get_pipeline_with_retry, when the first failure is not an API
\* error with status >= 500 (a 4xx, 429 included, a transport error, a JSON
\* error), the fetch was attempted exactly once, nothing was slept, and that
\* error is what is returned, whatever max_retries is.
C7_PermanentNotRetried ==
    (/\ mode \in RetryModes
     /\ retry_log # <<>>
     /\ ~retry_log[1].ok
     /\ ~Transient5xx(retry_log[1].err)) =>
        /\ Len(retry_log) = 1
        /\ attempt = 0
        /\ pc = "done"
        /\ exit = "error"
        /\ result = ErrResult(retry_log[1].err)

C7_Witness ==
    /\ mode = "get_pipeline_with_retry"
    /\ max_retries >= 3
    /\ exit = "error"
    /\ result.err = [kind |-> "Api", status |-> 429]
    /\ calls = 1

\* C8: in get_pipeline_with_retry, when every attempt failed with a transient
\* (5xx) error and the function returned, the fetch was invoked exactly
\* max_retries + 1 times, max_retries sleeps occurred, and the error returned
\* is the one of the last attempt.
C8_ExhaustionReturnsLastError ==
    (/\ mode \in RetryModes
     /\ exit = "error"
     /\ \A i \in 1..Len(retry_log) :
            retry_log[i].ev = "call" =>
                (~retry_log[i].ok /\ Transient5xx(retry_log[i].err))) =>
        /\ CallsIn(retry_log) = max_retries + 1
        /\ SleepsIn(retry_log) = max_retries
        /\ retry_log[Len(retry_log)].ev = "call"
        /\ result = ErrResult(retry_log[Len(retry_log)].err)

C8_Witness ==
    /\ mode = "get_pipeline_with_retry"
    /\ max_retries = 3
    /\ exit = "error"
    /\ retry_log[1].err.status = 503
    /\ result.err.status = 500
    /\ CallsIn(retry_log) = 4

\* C9: in wait_for_pipeline every poll iteration fetches with a fresh retry
\* budget: while an iteration's fetch is in progress (or has just ended the
\* loop with an error) the attempt counter equals the number of backoffs of
\* this iteration alone, those backoffs are 1, 2, 4, ... from the start, and
\* a transient failure ends the loop only after 5 retries of this iteration,
\* however many retries earlier iterations took.
C9_FreshRetryBudget ==
    (mode = "wait_for_pipeline" /\ pc \in {"fetch_status", "backoff", "done"}
        /\ exit # "cancelled") =>
        LET sl == SleepSecs(retry_log) IN
        /\ attempt = Len(sl)
        /\ attempt <= 5
        /\ \A i \in 1..Len(sl) : sl[i] = 2 ^ (i - 1)
        /\ (exit = "error" /\ Transient5xx(result.err)) => Len(sl) = 5

C9_Witness ==
    /\ mode = "wait_for_pipeline"
    /\ retries_used >= 2
    /\ pc = "backoff"
    /\ SleepSecs(retry_log) = <<1, 2, 4, 8, 16>>

C11_NoCallAfterSleepInterrupt ==
    (mode \in LoopModes /\ interrupt_at.pc \in {"sleep", "interval_sleep"}) =>
        calls = interrupt_at.calls

\* C11 amended: in the watch and follow loops, whose interval sleep ends the
\* iteration, an interrupt during that sleep makes the loop exit through the
\* interrupt check with no further remote call; in wait_for_build and
\* wait_for_pipeline the sleep lies between the interrupt check and the status
\* fetch, so after an interrupt during it the status fetch of that iteration
\* is still issued before the loop can exit.
C11_SleepInterruptByLoop ==
    /\ (mode \in LoopModes /\ interrupt_at.pc = "interval_sleep") =>
          /\ mode \in WatchModes \cup {"follow_log"}
          /\ calls = interrupt_at.calls
          /\ pc \in {"interval_sleep", "check", "done"}
          /\ pc = "done" => exit = "cancelled"
    /\ (mode \in LoopModes /\ interrupt_at.pc = "sleep") =>
          /\ mode \in WaitModes
          /\ pc = "sleep" => calls = interrupt_at.calls
          /\ pc \notin {"sleep", "fetch_status"} => calls > interrupt_at.calls
          /\ exit # "cancelled" \/ calls > interrupt_at.calls

C11_Witness ==
    /\ mode = "wait_for_build"
    /\ interrupt_at.pc = "sleep"
    /\ polls = 2
    /\ exit = "cancelled"
    /\ calls = interrupt_at.calls + 1

\* C12: in wait_for_pipeline an interrupt that arrives while a status fetch
\* or a retry backoff is in progress changes nothing of that fetch: a backoff
\* is followed by the next attempt, a transient failure with retries left is
\* followed by a backoff, and the cancelled exit is taken only from the
\* interrupt check at the top of the loop.
C12_RetriesRunToCompletion ==
    [][(mode = "wait_for_pipeline" /\ interrupted)
       => /\ exit' = "cancelled" => (pc = "check" \/ exit = "cancelled")
          /\ pc = "backoff" => (pc' = "fetch_status" /\ calls' = calls)
          /\ (/\ pc = "fetch_status"
              /\ calls' = calls + 1
              /\ ~retry_log'[Len(retry_log) + 1].ok
              /\ Transient5xx(retry_log'[Len(retry_log) + 1].err)
              /\ attempt < 5)
             => (pc' = "backoff" /\ attempt' = attempt + 1 /\ exit' = "none")]_vars

C12_Witness ==
    /\ mode = "wait_for_pipeline"
    /\ interrupt_at.pc = "backoff"
    /\ polls = 1
    /\ exit = "cancelled"
    /\ calls >= interrupt_at.calls + 3

\* C13: in every monitoring loop, when the interrupt flag is set at the top
\* of an iteration the function returns Ok with an empty string, not an Err,
\* issuing no remote call, whatever earlier iterations observed.
C13_CancelledReturnsOkEmpty ==
    [][(mode \in LoopModes /\ pc = "check" /\ interrupted)
       => /\ pc' = "done"
          /\ exit' = "cancelled"
          /\ result' = OkEmpty
          /\ calls' = calls
          /\ notified' = notified]_vars

C13_Witness ==
    /\ mode = "follow_log"
    /\ polls = 2
    /\ log_result = "err"
    /\ exit = "cancelled"
    /\ result = OkEmpty

\* C14: no monitoring loop calls abort_build or abort_pipeline on any path:
\* the only client methods it ever calls are get_build, get_pipeline and
\* get_full_log.
C14_NeverAborts ==
    mode \in LoopModes =>
        /\ requests \cap {"abort_build", "abort_pipeline"} = {}
        /\ requests \subseteq {"get_build", "get_pipeline", "get_full_log"}

C14_Witness ==
    /\ mode = "follow_log"
    /\ exit = "cancelled"
    /\ requests = {"get_build", "get_full_log"}

C16_FirstSnapshotPrinted ==
    (mode \in WatchModes /\ fetched # <<>>) =>
        (transitions # <<>> /\ transitions[1] = fetched[1])

\* C17 as claimed: in every status-polling loop each iteration that fetches
\* the status has first checked for cancellation and then slept the interval.
C17_SleepBeforeEveryFetch ==
    (mode \in PollModes /\ \E i \in 1..Len(iter_trace) : iter_trace[i] = "status") =>
        /\ Len(iter_trace) >= 3
        /\ iter_trace[1] = "check"
        /\ iter_trace[2] = "sleep"
        /\ iter_trace[3] = "status"

\* C17 amended: in wait_for_build and wait_for_pipeline every status fetch,
\* the first included, is preceded in its iteration by the cancellation check
\* and then the interval sleep; in watch_build_with_app and watch_pipeline it
\* is preceded by the cancellation check only, and the interval sleep comes
\* after the fetch, at the end of the iteration.
C17_SleepPlacementByLoop ==
    (mode \in PollModes /\ \E i \in 1..Len(iter_trace) : iter_trace[i] = "status") =>
        IF mode \in WaitModes
        THEN /\ Len(iter_trace) >= 3
             /\ iter_trace[1] = "check"
             /\ iter_trace[2] = "sleep"
             /\ iter_trace[3] = "status"
             /\ \A i \in 1..Len(iter_trace) : iter_trace[i] # "interval_sleep"
        ELSE /\ iter_trace[1] = "check"
             /\ iter_trace[2] = "status"
             /\ \A i \in 1..Len(iter_trace) : iter_trace[i] # "sleep"
             /\ Len(iter_trace) = 3 => iter_trace[3] = "interval_sleep"
             /\ Len(iter_trace) <= 3

C17_Witness ==
    /\ mode = "watch_pipeline"
    /\ polls = 1
    /\ calls = 1
    /\ iter_trace = <<"check", "status", "interval_sleep">>

\* C18: in follow_log, when the log fetch fails in an iteration whose status
\* fetch reported Running, nothing is emitted, no error is returned, the
\* recorded line count stays as it is, and the loop sleeps one interval and
\* resumes at the cancellation check.
C18_LogErrorWhileRunning ==
    [][(mode = "follow_log")
       => /\ (/\ pc = "fetch_log"
              /\ calls' = calls + 1
              /\ log_result' = "err"
              /\ last_snap.status = 0)
             => /\ emitted' = emitted
                /\ last_line_count' = last_line_count
                /\ result' = NoResult
                /\ exit' = "none"
                /\ notified' = notified
                /\ pc' = "interval_sleep"
          /\ (pc = "interval_sleep" /\ pc' # pc)
             => (pc' = "check" /\ calls' = calls)]_vars

C18_Witness ==
    /\ mode = "follow_log"
    /\ log_result = "err"
    /\ last_snap.status = 0
    /\ last_line_count = 2
    /\ Len(emitted) = 2
    /\ pc = "check"
    /\ polls = 2

\* C19: in follow_log, when the log fetch fails in an iteration whose status
\* fetch reported a status other than Running, the loop ends in that step
\* with LogNotAvailable, whatever error the client returned, and no fetch
\* follows.
C19_LogErrorWhenFinished ==
    (/\ mode = "follow_log"
     /\ iter_trace = <<"check", "status", "log">>
     /\ log_result = "err"
     /\ last_snap.status # 0) =>
        /\ pc = "done"
        /\ exit = "error"
        /\ result = ErrResult(LogNotAvailable)
        /\ calls = last_snap.call + 1
        /\ notified = <<>>

C19_Witness ==
    /\ mode = "follow_log"
    /\ polls = 2
    /\ last_snap.status = 1
    /\ log_err = [kind |-> "Api", status |-> 503]
    /\ result.err = LogNotAvailable

\* C20 as claimed: in follow_log a failed status fetch does not end the loop
\* and is not returned to the caller as an error.
C20_StatusErrorTolerated ==
    (mode = "follow_log" /\ retry_log # <<>> /\ ~retry_log[Len(retry_log)].ok) =>
        (exit # "error" /\ result.tag # "Err")

\* C20 amended: in follow_log the status fetch is a single unretried call
\* and its failure is not tolerated: it ends the loop at once, before any log
\* fetch of that iteration, and the client's error is returned to the caller
\* unchanged.
C20_StatusErrorPropagated ==
    (mode = "follow_log" /\ retry_log # <<>> /\ ~retry_log[1].ok) =>
        /\ Len(retry_log) = 1
        /\ pc = "done"
        /\ exit = "error"
        /\ result = ErrResult(retry_log[1].err)
        /\ iter_trace = <<"check", "status">>
        /\ notified = <<>>

C20_Witness ==
    /\ mode = "follow_log"
    /\ polls = 2
    /\ log_result = "ok"
    /\ exit = "error"
    /\ result.err = [kind |-> "Api", status |-> 503]

\* the errors the retry policy classes as permanent: every error but a 5xx
PermanentErrors == {e \in LogFetchErrors : ~Transient5xx(e)}

\* C21 as claimed: in every monitoring loop a status fetch or a log fetch that
\* fails with a permanent error ends the loop in that step with an error.
C21_PermanentFailureEndsLoop ==
    [][(mode \in LoopModes /\ \E e \in PermanentErrors : StatusErr(e) \/ LogErr(e))
       => (pc' = "done" /\ exit' = "error" /\ result'.tag = "Err")]_vars

\* C21 amended: a status fetch that fails with a permanent error ends the loop
\* in that step and the error is returned unchanged; a log fetch that fails,
\* with any error, ends follow_log in that step with LogNotAvailable when the
\* status fetched in the iteration is not Running; when that status is
\* Running the failed log fetch, permanent or not, ends nothing: the loop
\* sleeps and polls again.
C21_PermanentFailureByFetch ==
    [][(mode \in LoopModes) =>
         (/\ \A e \in PermanentErrors \ {InvalidArgument} :
                StatusErr(e) =>
                    (pc' = "done" /\ exit' = "error" /\ result' = ErrResult(e))
          /\ \A e \in PermanentErrors :
                LogErr(e) =>
                    IF is_running(last_snap.status)
                    THEN pc' = "interval_sleep" /\ exit' = "none" /\ result' = NoResult
                    ELSE /\ pc' = "done"
                         /\ exit' = "error"
                         /\ result' = ErrResult(LogNotAvailable))]_vars

C21_Witness ==
    /\ mode = "wait_for_pipeline"
    /\ polls = 2
    /\ exit = "error"
    /\ retry_log = <<CallEv(FALSE, [kind |-> "Api", status |-> 404])>>
    /\ result.err = [kind |-> "Api", status |-> 404]

\* C23: the interrupt token of a monitoring loop reads false until a signal
\* has been delivered, and from the step in which it first reads true it reads
\* true in every later state: no step of a loop stores false into it.
C23_TokenLatches ==
    /\ []((mode \in LoopModes /\ interrupt_at.pc = "none") => ~interrupted)
    /\ [][(mode \in LoopModes /\ interrupted) => interrupted']_vars

C23_Witness ==
    /\ mode = "wait_for_pipeline"
    /\ interrupted
    /\ interrupt_at.pc = "sleep"
    /\ pc = "backoff"
    /\ attempt = 2

\* C24 as claimed: the cancelled exit is taken only after at least one
\* snapshot has been observed and only when every observed snapshot is
\* Running.
C24_CancelledOnlyFromRunning ==
    (mode \in LoopModes /\ exit = "cancelled") =>
        /\ fetched # <<>>
        /\ \A i \in 1..Len(fetched) : fetched[i] = 0

\* C24 amended: the cancelled exit is never taken after a snapshot that is
\* not Running has been observed; it is taken either with every observed
\* snapshot Running or, when the flag is already set at the first interrupt
\* check, before any snapshot has been observed and before any remote call.
C24_CancelledNeverAfterTerminal ==
    (mode \in LoopModes /\ exit = "cancelled") =>
        /\ \A i \in 1..Len(fetched) : fetched[i] = 0
        /\ fetched = <<>> => (calls = 0 /\ polls = 0 /\ interrupt_at.pc = "check")

C24_Witness ==
    /\ mode = "wait_for_build"
    /\ exit = "cancelled"
    /\ fetched = <<>>
    /\ calls = 0
    /\ result = OkEmpty

\* C25: the step that ends a loop on a finished job yields the same return
\* value and the same output whether the notification sink shows the
\* notification or fails: the value is the one built from the snapshot (wait
\* loops) or the empty string, the lines written are those the fetched status
\* or log calls for, and a failed notification never ends a loop with an Err.
C25_NotificationFailureHarmless ==
    /\ [](notify_outcome = "failed" =>
            (pc = "done" /\ exit = "terminal" /\ result.tag = "Ok"))
    /\ [][(mode \in LoopModes /\ exit = "none" /\ exit' = "terminal") =>
            (/\ pc' = "done"
             /\ result' = (IF mode \in WaitModes THEN OkRendered(last_snap') ELSE OkEmpty)
             /\ mode \in WatchModes =>
                   transitions' = (IF last_snap'.status # last_status
                                   THEN Append(transitions, last_snap'.status)
                                   ELSE transitions)
             /\ mode = "follow_log" =>
                   emitted' = emitted \o NewLines(fetched_lines', last_line_count)
             /\ notified' = (IF send_notification THEN Append(notified, last_snap')
                             ELSE notified))]_vars

C25_Witness ==
    /\ mode = "follow_log"
    /\ notify_outcome = "failed"
    /\ Len(notified) = 1
    /\ emitted # <<>>
    /\ exit = "terminal"
    /\ result = OkEmpty

\* ------------------------------------------------ the loops under fairness
\* An invocation in which every fetch succeeds and the job reports Running
\* only finitely often: at most MaxPolls - 1 times.
FinishingStatusOk ==
    \E s \in StatusCodes, shown \in BOOLEAN :
        /\ polls = MaxPolls => s # 0
        /\ StatusOk(s, shown)

LiveInit == Init /\ mode \in LoopModes

LoopStep ==
    \/ CheckInterrupt
    \/ Sleep
    \/ FinishingStatusOk
    \/ \E content \in LogContents, shown \in BOOLEAN : LogOk(content, shown)
    \/ IntervalSleep

LiveNext ==
    \/ Interrupt
    \/ LoopStep

\* the loop is the process's only thread: a sleep ends and a fetch returns
LiveSpec == LiveInit /\ [][LiveNext]_vars /\ WF_vars(LoopStep)

set_handler(cur, k) ==
    IF cur = 0 THEN [handler |-> k, ok |-> TRUE]
    ELSE [handler |-> cur, ok |-> FALSE]

\* .ok() on the Result of set_handler: the Err is discarded, nothing panics
PanicsOnErr(ok) == FALSE

HandlerInit ==
    HandlerIdle /\ LoopIdle /\ CodeIdle /\ CacheIdle /\ CliIdle /\ BuildsIdle

\* pub fn setup_interrupt_handler() -> Arc<AtomicBool>
setup_interrupt_handler ==
    /\ Len(h_tokens) < MaxSetups
    /\ ~h_panicked
    /\ LET k == Len(h_tokens) + 1
           r == set_handler(h_handler, k)
       IN  /\ h_tokens' = Append(h_tokens, NewToken)
           /\ h_observed' = Append(h_observed, FALSE)
           /\ h_handler' = r.handler
           /\ h_rejected' = IF r.ok THEN h_rejected ELSE h_rejected + 1
           /\ h_panicked' = PanicsOnErr(r.ok)
    /\ UNCHANGED h_signals
    /\ UNCHANGED <<loop_vars, code_vars, cache_vars, cli_vars, builds_vars>>

\* an interrupt signal: the installed closure stores true into the flag it captured
Signal ==
    /\ h_handler # 0
    /\ h_signals < MaxSignals
    /\ h_signals' = h_signals + 1
    /\ h_tokens' = [h_tokens EXCEPT ![h_handler] = HandlerStore(@)]
    /\ UNCHANGED <<h_observed, h_handler, h_rejected, h_panicked>>
    /\ UNCHANGED <<loop_vars, code_vars, cache_vars, cli_vars, builds_vars>>

\* a holder of the k-th flag stores true into it itself: interrupted.store(true, ..)
StoreFlag(k) ==
    /\ h_tokens' = [h_tokens EXCEPT ![k] = TRUE]
    /\ UNCHANGED <<h_observed, h_handler, h_rejected, h_signals, h_panicked>>
    /\ UNCHANGED <<loop_vars, code_vars, cache_vars, cli_vars, builds_vars>>

\* the caller of the k-th call polls its flag: is_interrupted(&interrupted)
LoadFlag(k) ==
    /\ is_interrupted(h_tokens[k])
    /\ h_observed' = [h_observed EXCEPT ![k] = TRUE]
    /\ UNCHANGED <<h_tokens, h_handler, h_rejected, h_signals, h_panicked>>
    /\ UNCHANGED <<loop_vars, code_vars, cache_vars, cli_vars, builds_vars>>

HandlerNext ==
    \/ setup_interrupt_handler
    \/ Signal
    \/ \E k \in 1..Len(h_tokens) : StoreFlag(k)
    \/ \E k \in 1..Len(h_tokens) : LoadFlag(k)

HandlerSpec == HandlerInit /\ [][HandlerNext]_vars

\* C22: a call of setup_interrupt_handler made while a handler is installed
\* does not panic and leaves the earlier handler in place, and the flag it
\* returns reads true once an interrupt signal has been delivered: each
\* delivered signal leaves every flag returned so far set.
C22_LaterTokenCancelled ==
    /\ [](~h_panicked)
    /\ [](h_handler \in {0, 1})
    /\ [][(h_signals' = h_signals + 1) =>
            \A k \in 1..Len(h_tokens) : h_tokens'[k]]_vars

\* ------------------------------------------------ main: error to exit status
\* HTTP statuses a response can carry
HttpStatuses == 100..599

\* the values of RepriseError: Api carries the status, the others a message
ErrorValues ==
    [kind : {"Api"}, status : HttpStatuses \ (200..299)]
        \cup [kind : {"Config", "ConfigMissing", "NoDefaultApp", "InvalidArgument",
                      "AppNotFound", "BuildNotFound", "LogNotAvailable", "Http",
                      "Io", "Env", "Json", "Toml", "TomlSerialize"},
              status : {0}]

\* variant: only 401 mapped to EX_NOPERM
exit_code_403_unavailable(e) ==
    CASE e.kind \in {"Config", "ConfigMissing", "NoDefaultApp"} -> 78
      [] e.kind = "InvalidArgument" -> 2
      [] e.kind \in {"AppNotFound", "BuildNotFound", "LogNotAvailable"} -> 66
      [] e.kind = "Api" ->
            (CASE e.status = 401 -> 77
               [] e.status = 404 -> 66
               [] OTHER -> 69)
      [] e.kind = "Http" -> 69
      [] e.kind \in {"Io", "Env"} -> 74
      [] e.kind \in {"Json", "Toml", "TomlSerialize"} -> 65

\* RepriseError::exit_code
exit_code(e) ==
    CASE e.kind \in {"Config", "ConfigMissing", "NoDefaultApp"} -> 78
      [] e.kind = "InvalidArgument" -> 2
      [] e.kind \in {"AppNotFound", "BuildNotFound", "LogNotAvailable"} -> 66
      [] e.kind = "Api" ->
            (CASE e.status \in {401, 403} -> 77
               [] e.status = 404 -> 66
               [] OTHER -> 69)
      [] e.kind = "Http" -> 69
      [] e.kind \in {"Io", "Env"} -> 74
      [] e.kind \in {"Json", "Toml", "TomlSerialize"} -> 65

\* the errors a monitor returns: a 5xx after the retries are spent, or
\* LogNotAvailable when the log of a finished build cannot be fetched
ErrorsOf(origin) ==
    CASE origin = "retry_exhausted" -> {e \in ErrorValues : should_retry(e)}
      [] origin = "log_never_available" -> {LogNotAvailable}
      [] OTHER -> ErrorValues

\* run() has returned Err(e)
ExitInit ==
    /\ LoopIdle
    /\ HandlerIdle
    /\ CacheIdle
    /\ CliIdle
    /\ BuildsIdle
    /\ e_origin \in {"retry_exhausted", "log_never_available", "other"}
    /\ e_err \in ErrorsOf(e_origin)
    /\ e_code = -1

\* main: if let Err(e) = run() { ..; std::process::exit(e.exit_code()) }
main ==
    /\ e_code = -1
    /\ e_code' = exit_code(e_err)
    /\ UNCHANGED <<e_origin, e_err>>
    /\ UNCHANGED <<loop_vars, handler_vars, cache_vars, cli_vars, builds_vars>>

ExitNext == main

ExitSpec == ExitInit /\ [][ExitNext]_vars

AppLists == {<<>>, <<"app1">>, <<"app1", "app2">>}

\* serde_json::to_string_pretty(&cached): the text holds both fields
to_string_pretty(cached) == <<"cached_at", cached.cached_at, "apps", cached.apps>>

\* serde_json::from_str::<CachedApps>(&data)
from_str(data) == [cached_at |-> data[2], apps |-> data[4]]

\* u64::saturating_sub
saturating_sub(a, b) == IF a >= b THEN a - b ELSE 0

\* variant: an entry exactly ttl seconds old already expired
IsExpiredAtTtl(age, ttl) == age >= ttl

\* if age > self.ttl.as_secs() { return None; }
IsExpired(age, ttl) == age > ttl

SomeApps(apps) == [tag |-> "Some", apps |-> apps]
NoneApps == [tag |-> "None", apps |-> <<>>]

\* AppCache::with_ttl(cache_dir, ttl_secs) over a directory with no cache file
CacheInit ==
    /\ LoopIdle
    /\ HandlerIdle
    /\ CodeIdle
    /\ CliIdle
    /\ BuildsIdle
    /\ c_ttl \in 0..MaxTtl
    /\ c_now \in 0..MaxTime
    /\ c_file = <<>>
    /\ c_got = NoGet
    /\ c_stored = NotStored

\* AppCache::set
CacheSet(apps) ==
    /\ c_file' = <<to_string_pretty([cached_at |-> c_now, apps |-> apps])>>
    /\ c_stored' = [some |-> TRUE, apps |-> apps, at |-> c_now]
    /\ c_got' = NoGet
    /\ UNCHANGED <<c_ttl, c_now>>
    /\ UNCHANGED <<loop_vars, handler_vars, code_vars, cli_vars, builds_vars>>

\* AppCache::clear
CacheClear ==
    /\ c_file' = <<>>
    /\ c_stored' = NotStored
    /\ c_got' = NoGet
    /\ UNCHANGED <<c_ttl, c_now>>
    /\ UNCHANGED <<loop_vars, handler_vars, code_vars, cli_vars, builds_vars>>

\* AppCache::get
CacheGet ==
    /\ c_got' = IF c_file = <<>> THEN NoneApps
                ELSE LET cached == from_str(c_file[1])
                         age == saturating_sub(c_now, cached.cached_at)
                     IN  IF IsExpired(age, c_ttl) THEN NoneApps
                         ELSE SomeApps(cached.apps)
    /\ UNCHANGED <<c_ttl, c_now, c_file, c_stored>>
    /\ UNCHANGED <<loop_vars, handler_vars, code_vars, cli_vars, builds_vars>>

\* the clock moves, forwards or (when it is set) backwards
ClockMoves(t) ==
    /\ t # c_now
    /\ c_now' = t
    /\ c_got' = NoGet
    /\ UNCHANGED <<c_ttl, c_file, c_stored>>
    /\ UNCHANGED <<loop_vars, handler_vars, code_vars, cli_vars, builds_vars>>

CacheNext ==
    \/ \E apps \in AppLists : CacheSet(apps)
    \/ CacheClear
    \/ CacheGet
    \/ \E t \in 0..MaxTime : ClockMoves(t)

CacheSpec == CacheInit /\ [][CacheNext]_vars

\* C30: get returns the list of the latest set when no clear followed that
\* set and the clock reads at most TTL seconds more than it read at the set
\* (a clock reading less than at the set counts as age 0), and returns None
\* when it reads more than that, after a clear, and when nothing was stored.
C30_GetReturnsFreshEntry ==
    c_got.tag # "unset" =>
        /\ (c_stored.some /\ c_now - c_stored.at <= c_ttl) =>
              c_got = SomeApps(c_stored.apps)
        /\ (c_stored.some /\ c_now - c_stored.at > c_ttl) => c_got = NoneApps
        /\ ~c_stored.some => c_got = NoneApps

C30_Witness ==
    /\ c_ttl = 1
    /\ c_stored = [some |-> TRUE, apps |-> <<"app1", "app2">>, at |-> 2]
    /\ c_now = 3
    /\ c_got = SomeApps(<<"app1", "app2">>)

(***************************************************************************)
(* One invocation of the binary: run() dispatches the command, the command *)
(* function makes its client calls and either returns or calls one         *)
(* monitoring loop and returns what the loop returns.  The loop itself is  *)
(* the subject of Spec; here it is entered and left.  The flags are those  *)
(* the command functions read; what the remote service answers is chosen   *)
(* with \E.                                                                *)
(***************************************************************************)
CliCommands == {"trigger", "pipeline_trigger", "pipeline_rebuild", "pipeline_watch",
                "build", "log", "builds", "url_build", "url_app", "url_pipeline",
                "url_generate", "url_invalid", "other", "offline"}

\* the flags each command function reads
FlagsOf(cmd) ==
    CASE cmd \in {"trigger", "pipeline_trigger", "pipeline_rebuild"} -> {"wait"}
      [] cmd = "build" -> {"follow", "logs", "artifacts"}
      [] cmd = "log" -> {"follow"}
      [] cmd = "builds" -> {"watch"}
      [] cmd \in {"url_build", "url_app", "url_pipeline"} -> FlagNames \ {"wait"}
      [] OTHER -> {}

\* an identifier given on the command line, and those the service returns
ArgId == "given"
JobIds == {"new1", "new2"}

CliCall(name, ok) == [call |-> name, ok |-> ok]

CliInit ==
    /\ LoopIdle
    /\ HandlerIdle
    /\ CodeIdle
    /\ CacheIdle
    /\ BuildsIdle
    /\ cli_cmd \in CliCommands
    /\ cli_args \in {a \in [FlagNames -> BOOLEAN] :
                        \A f \in FlagNames \ FlagsOf(cli_cmd) : ~a[f]}
    /\ cli_format \in {"Pretty", "Json"}
    /\ cli_app_ok \in BOOLEAN
    /\ cli_pc = "run"
    /\ cli_calls = <<>>
    /\ cli_job = "none"
    /\ cli_loop = NoLoop
    /\ cli_loops = 0
    /\ cli_handlers = 0
    /\ cli_out = "none"

\* a step of the invocation that enters no loop
CliStep(pc2, out2, calls2, job2, loop2) ==
    /\ cli_pc' = pc2
    /\ cli_out' = out2
    /\ cli_calls' = calls2
    /\ cli_job' = job2
    /\ cli_loop' = loop2
    /\ UNCHANGED <<cli_cmd, cli_args, cli_format, cli_app_ok, cli_loops, cli_handlers>>
    /\ UNCHANGED <<loop_vars, handler_vars, code_vars, cache_vars, builds_vars>>

\* `return Ok(..)` / `?` / the tail expression of a command function
Return(out, calls2, job2) == CliStep("done", out, calls2, job2, cli_loop)

\* `return loop_fn(client, .., id, ..)`
CallLoop(name, id, calls2, job2) ==
    CliStep("enter_loop", cli_out, calls2, job2, [name |-> name, id |-> id])

\* the command function run() calls
Handler(cmd) ==
    CASE cmd \in {"url_build", "url_app", "url_pipeline", "url_generate",
                  "url_invalid"} -> "url"
      [] cmd = "log" -> "log_command"
      [] cmd = "other" -> "other_command"
      [] OTHER -> cmd

\* main.rs run(): commands that need no client return first, the others
\* load the configuration, build the client and dispatch
run ==
    /\ cli_pc = "run"
    /\ IF cli_cmd = "offline"
       THEN \E out \in {"ok", "err"} : Return(out, cli_calls, cli_job)
       ELSE \E client_ok \in BOOLEAN :
              IF client_ok
              THEN CliStep(Handler(cli_cmd), cli_out, cli_calls, cli_job, cli_loop)
              ELSE Return("err", cli_calls, cli_job)

\* the identifier handed to the loop after a trigger call: the one the
\* call returned
PolledJobGiven(given, returned) == given
PolledJob(given, returned) == returned

\* resolve the app, trigger, and with the wait flag poll what was triggered
TriggerThenWait(call, loop_fn) ==
    IF ~cli_app_ok
    THEN Return("err", cli_calls, cli_job)
    ELSE \E r \in JobIds \cup {"err"} :
           LET calls2 == Append(cli_calls, CliCall(call, r # "err")) IN
           IF r = "err"
           THEN Return("err", calls2, cli_job)
           ELSE IF cli_args.wait
                THEN CallLoop(loop_fn, PolledJob(ArgId, r), calls2, r)
                ELSE Return("ok", calls2, r)

trigger ==
    /\ cli_pc = "trigger"
    /\ TriggerThenWait("trigger_build", "wait_for_build")

pipeline_trigger ==
    /\ cli_pc = "pipeline_trigger"
    /\ TriggerThenWait("trigger_pipeline", "wait_for_pipeline")

pipeline_rebuild ==
    /\ cli_pc = "pipeline_rebuild"
    /\ TriggerThenWait("rebuild_pipeline", "wait_for_pipeline")

pipeline_watch ==
    /\ cli_pc = "pipeline_watch"
    /\ IF ~cli_app_ok
       THEN Return("err", cli_calls, cli_job)
       ELSE CallLoop("wait_for_pipeline", ArgId, cli_calls, cli_job)

\* a command function that follows the log with --follow and otherwise
\* fetches and prints
FollowOrPrint(fetch) ==
    IF ~cli_app_ok
    THEN Return("err", cli_calls, cli_job)
    ELSE IF cli_args.follow
         THEN CallLoop("follow_log", ArgId, cli_calls, cli_job)
         ELSE \E ok \in BOOLEAN :
                Return(IF ok THEN "ok" ELSE "err",
                       Append(cli_calls, CliCall(fetch, ok)), cli_job)

build ==
    /\ cli_pc = "build"
    /\ FollowOrPrint("get_build")

log_command ==
    /\ cli_pc = "log_command"
    /\ FollowOrPrint("get_build_log")

builds ==
    /\ cli_pc = "builds"
    /\ IF cli_args.watch
       THEN CallLoop("watch_builds", ArgId, cli_calls, cli_job)
       ELSE \E ok \in BOOLEAN :
              Return(IF ok THEN "ok" ELSE "err",
                     Append(cli_calls, CliCall("list_builds", ok)), cli_job)

\* every other command: client calls and output, no loop
other_command ==
    /\ cli_pc = "other_command"
    /\ \E ok \in BOOLEAN :
         Return(IF ok THEN "ok" ELSE "err",
                Append(cli_calls, CliCall("other", ok)), cli_job)

\* the flags validate_flags_for_url_type rejects for a URL that is not a
\* build URL
BuildOnlyFlags == {"logs", "follow", "artifacts", "abort", "retry", "download"}

validate_flags_for_url_type(cmd, args) ==
    CASE cmd = "url_build" -> ~args.set_default
      [] cmd = "url_app" -> \A f \in BuildOnlyFlags : ~args[f]
      [] cmd = "url_pipeline" ->
           ~args.set_default /\ \A f \in BuildOnlyFlags : ~args[f]
      [] OTHER -> TRUE

HandlerOfUrl(cmd) ==
    CASE cmd = "url_build" -> "handle_build_url"
      [] cmd = "url_app" -> "handle_app_url"
      [] OTHER -> "handle_pipeline_url"

\* url: generation mode, parsing, flag validation, the browser, then the
\* handler of the URL's type
url ==
    /\ cli_pc = "url"
    /\ IF cli_cmd = "url_generate"
       THEN \E out \in {"ok", "err"} : Return(out, cli_calls, cli_job)
       ELSE IF cli_cmd = "url_invalid" \/ ~validate_flags_for_url_type(cli_cmd, cli_args)
       THEN Return("err", cli_calls, cli_job)
       ELSE \E opened \in BOOLEAN :
              IF cli_args.browser /\ ~opened
              THEN Return("err", cli_calls, cli_job)
              ELSE IF cli_args.browser /\ cli_format = "Pretty"
              THEN Return("ok", cli_calls, cli_job)
              ELSE CliStep(HandlerOfUrl(cli_cmd), cli_out, cli_calls, cli_job, cli_loop)

handle_build_url ==
    /\ cli_pc = "handle_build_url"
    /\ \E found \in BOOLEAN, running \in BOOLEAN, ok \in BOOLEAN :
         LET calls2 == Append(cli_calls, CliCall("find_build_with_app", found))
             out == IF ok THEN "ok" ELSE "err"
         IN  IF ~found THEN Return("err", calls2, cli_job)
             ELSE IF cli_args.abort
             THEN Return(out, Append(calls2, CliCall("abort_build", ok)), cli_job)
             ELSE IF cli_args.retry
             THEN CliStep("retry_build_action", cli_out, calls2, cli_job, cli_loop)
             ELSE IF cli_args.download
             THEN Return(out, Append(calls2, CliCall("list_artifacts", ok)), cli_job)
             ELSE IF cli_args.logs
             THEN Return(out, Append(calls2, CliCall("get_full_log", ok)), cli_job)
             ELSE IF cli_args.follow
             THEN CallLoop("follow_build_log", ArgId, calls2, cli_job)
             ELSE IF cli_args.artifacts
             THEN Return(out, Append(calls2, CliCall("list_artifacts", ok)), cli_job)
             ELSE IF cli_args.watch /\ running
             THEN CallLoop("watch_build_with_app", ArgId, calls2, cli_job)
             ELSE Return(out, calls2, cli_job)

retry_build_action ==
    /\ cli_pc = "retry_build_action"
    /\ \E r \in JobIds \cup {"err"} :
         LET calls2 == Append(cli_calls, CliCall("trigger_build", r # "err")) IN
         IF r = "err"
         THEN Return("err", calls2, cli_job)
         ELSE IF cli_args.retry_wait
              THEN CallLoop("watch_build_with_app", PolledJob(ArgId, r), calls2, r)
              ELSE Return("ok", calls2, r)

handle_app_url ==
    /\ cli_pc = "handle_app_url"
    /\ \E ok \in BOOLEAN :
         Return(IF ok THEN "ok" ELSE "err",
                Append(cli_calls, CliCall("get_app", ok)), cli_job)

handle_pipeline_url ==
    /\ cli_pc = "handle_pipeline_url"
    /\ \E found \in BOOLEAN, running \in BOOLEAN, ok \in BOOLEAN :
         LET calls2 == Append(cli_calls, CliCall("get_pipeline", found)) IN
         IF ~found THEN Return("err", calls2, cli_job)
         ELSE IF cli_args.watch /\ running
         THEN CallLoop("watch_pipeline", ArgId, calls2, cli_job)
         ELSE Return(IF ok THEN "ok" ELSE "err", calls2, cli_job)

\* the first statements of a monitoring loop: the token and
\* ctrlc::set_handler
enter_loop ==
    /\ cli_pc = "enter_loop"
    /\ cli_pc' = "in_loop"
    /\ cli_loops' = cli_loops + 1
    /\ cli_handlers' = cli_handlers + 1
    /\ UNCHANGED <<cli_cmd, cli_args, cli_format, cli_app_ok, cli_calls, cli_job,
                   cli_loop, cli_out>>
    /\ UNCHANGED <<loop_vars, handler_vars, code_vars, cache_vars, builds_vars>>

\* where control goes when the loop returns: every call site is
\* `return loop_fn(..)`, so to the caller of the command function
AfterLoopRerun(name) == "run"
AfterLoop(name) == "done"

loop_returns ==
    /\ cli_pc = "in_loop"
    /\ \E out \in {"ok", "err"} :
         CliStep(AfterLoop(cli_loop.name), out, cli_calls, cli_job, cli_loop)

CliNext ==
    \/ run
    \/ trigger
    \/ pipeline_trigger
    \/ pipeline_rebuild
    \/ pipeline_watch
    \/ build
    \/ log_command
    \/ builds
    \/ other_command
    \/ url
    \/ handle_build_url
    \/ retry_build_action
    \/ handle_app_url
    \/ handle_pipeline_url
    \/ enter_loop
    \/ loop_returns

CliSpec == CliInit /\ [][CliNext]_vars

TriggerCommands == {"trigger", "pipeline_trigger", "pipeline_rebuild"}

TriggerCallOf(cmd) ==
    CASE cmd = "trigger" -> "trigger_build"
      [] cmd = "pipeline_trigger" -> "trigger_pipeline"
      [] OTHER -> "rebuild_pipeline"

WaitLoopOf(cmd) == IF cmd = "trigger" THEN "wait_for_build" ELSE "wait_for_pipeline"

\* C26: in trigger, pipeline_trigger and pipeline_rebuild a wait loop is
\* called only with --wait and after the trigger call, the last client
\* call made, has succeeded, and it polls the identifier that call
\* returned; an invocation that ends without --wait or with a failed
\* trigger call has entered no loop and registered no handler, and one
\* with --wait and a successful trigger call has entered the loop.
C26_WaitAfterTrigger ==
    (cli_cmd \in TriggerCommands) =>
        /\ (cli_loop # NoLoop) =>
              /\ cli_args.wait
              /\ cli_calls # <<>>
              /\ cli_calls[Len(cli_calls)] = CliCall(TriggerCallOf(cli_cmd), TRUE)
              /\ cli_job \in JobIds
              /\ cli_loop = [name |-> WaitLoopOf(cli_cmd), id |-> cli_job]
        /\ (cli_loop = NoLoop) => (cli_loops = 0 /\ cli_handlers = 0)
        /\ (cli_pc = "done" /\ (~cli_args.wait \/ cli_job = "none")) =>
              (cli_loop = NoLoop /\ cli_loops = 0 /\ cli_handlers = 0)
        /\ (cli_pc = "done" /\ cli_args.wait /\ cli_job # "none") =>
              (cli_loops = 1 /\ cli_handlers = 1)

\* a --wait invocation that triggered, polled and returned
C26_Witness ==
    /\ cli_cmd = "pipeline_rebuild"
    /\ cli_args.wait
    /\ cli_pc = "done"
    /\ cli_loops = 1
    /\ cli_loop.id = cli_job
    /\ cli_job \in JobIds

\* C28: in one invocation, whatever the command and the flags, at most one
\* monitoring loop is entered and ctrlc::set_handler is called at most
\* once.
C28_OneLoopPerInvocation == cli_loops <= 1 /\ cli_handlers <= 1

\* url on a build URL with every loop-selecting flag set has returned
\* after one loop
C28_Witness ==
    /\ cli_cmd = "url_build"
    /\ cli_args.retry /\ cli_args.retry_wait /\ cli_args.follow /\ cli_args.watch
    /\ cli_pc = "done"
    /\ cli_loops = 1
    /\ cli_handlers = 1

\* C31: in follow_log, at the end of every iteration (and so at every point
\* between two steps of the loop) the number of lines written so far
\* equals last_line_count, whether the fetched logs grew, shrank or the
\* fetch failed.
C31_EmittedCountIsLineCount ==
    (mode = "follow_log") => Len(emitted) = last_line_count

\* a run that printed two lines, then fetched a shorter log and returned
C31_Witness ==
    /\ mode = "follow_log"
    /\ pc = "done"
    /\ exit = "terminal"
    /\ ~grew_only
    /\ Len(fetched_lines) < last_line_count
    /\ last_line_count = 2
    /\ Len(emitted) = 2

\* C32: in wait_for_build and wait_for_pipeline, when the interrupt flag is
\* already set at the status fetch of an iteration (it was set after that
\* iteration's cancellation check, which found it clear) and the fetch
\* returns a snapshot that is not Running, the loop returns the rendered
\* terminal result, not the cancelled one, and calls the notifier with that
\* snapshot when notifications are enabled.
C32_TerminalWinsOverLateInterrupt ==
    [][(/\ mode \in WaitModes
        /\ pc = "fetch_status"
        /\ interrupted
        /\ Len(fetched') = Len(fetched) + 1
        /\ last_snap'.status # 0)
       => (/\ interrupt_at.pc \in {"sleep", "fetch_status", "backoff"}
           /\ pc' = "done"
           /\ exit' = "terminal"
           /\ result' = OkRendered(last_snap')
           /\ result' # CancelledReturn(last_snap')
           /\ notified' = IF send_notification
                           THEN Append(notified, last_snap')
                           ELSE notified)]_vars

\* Ctrl+C arrived during the sleep of the second iteration, whose fetch
\* then returned a failed build
C32_Witness ==
    /\ mode \in WaitModes
    /\ send_notification
    /\ interrupted
    /\ interrupt_at.pc = "sleep"
    /\ polls = 2
    /\ pc = "done"
    /\ exit = "terminal"
    /\ last_snap.status = 2
    /\ result = OkRendered(last_snap)
    /\ notified = <<last_snap>>

\* position of a step in the current iteration, 0 when it did not happen
PosIn(trace, step) ==
    IF \E i \in 1..Len(trace) : trace[i] = step
    THEN CHOOSE i \in 1..Len(trace) : trace[i] = step
    ELSE 0

\* C33: in follow_log the status is fetched before the log in every
\* iteration, and the step that returns successfully on a status other than
\* Running has fetched the log after that status was observed, has written
\* every line of that log from the recorded line count onward, and has
\* written them before the notifier is called and before the return.
C33_LinesBeforeNotifyAndReturn ==
    /\ [](mode = "follow_log" =>
             \A i \in 1..Len(iter_trace) :
                iter_trace[i] = "log" => (i > 1 /\ iter_trace[i - 1] = "status"))
    /\ [][(mode = "follow_log" /\ exit = "none" /\ exit' = "terminal")
          => (/\ pc = "fetch_log"
              /\ last_snap.status # 0
              /\ calls' = last_snap.call + 1
              /\ log_result' = "ok"
              /\ emitted' = emitted \o
                    (IF last_line_count <= Len(fetched_lines')
                     THEN SubSeq(fetched_lines', last_line_count + 1, Len(fetched_lines'))
                     ELSE <<>>)
              /\ (emitted' # emitted) =>
                    (/\ PosIn(iter_trace', "log") < PosIn(iter_trace', "emit")
                     /\ PosIn(iter_trace', "emit") < PosIn(iter_trace', "return"))
              /\ send_notification =>
                    (/\ notified' = Append(notified, last_snap)
                     /\ PosIn(iter_trace', "log") < PosIn(iter_trace', "notify")
                     /\ PosIn(iter_trace', "notify") < PosIn(iter_trace', "return")
                     /\ (emitted' # emitted) =>
                           PosIn(iter_trace', "emit") < PosIn(iter_trace', "notify")))]_vars

\* the build finished between two polls: the last iteration printed the
\* line that appeared after the first one, notified and returned
C33_Witness ==
    /\ mode = "follow_log"
    /\ send_notification
    /\ polls = 2
    /\ exit = "terminal"
    /\ result = OkEmpty
    /\ Len(emitted) = 2
    /\ last_line_count = 2
    /\ iter_trace = <<"check", "status", "log", "emit", "notify", "return">>
    /\ notified = <<last_snap>>

(***************************************************************************)
(* watch_builds: the list of builds fetched and printed again every        *)
(* interval until Ctrl+C.  print!/println! panic when the write to         *)
(* standard output fails; `stdout.flush()?` returns the Io error.          *)
(* Standard error is taken to be writable.                                 *)
(***************************************************************************)
IoError == [kind |-> "Io", status |-> 0]
ConfigError == [kind |-> "Config", status |-> 0]

\* what fetch_and_format_builds can fail with: resolve_app_slug, the client
BuildsErrors == FetchErrors \cup {ConfigError}

\* a write to standard output: done, or failed inside print!/println!
\* (panic), or failed inside flush()? (Io)
PrintOutcomes == {"ok", "panic"}
FlushOutcomes == {"ok", "io"}

WriteResult(w) == IF w = "io" THEN ErrResult(IoError) ELSE NoResult

WatchInit ==
    /\ LoopIdle
    /\ HandlerIdle
    /\ CodeIdle
    /\ CacheIdle
    /\ CliIdle
    /\ b_format \in {"Pretty", "Json"}
    /\ b_pc = "check"
    /\ b_interrupted = NewToken
    /\ b_polls = 0
    /\ b_fetch = NoFetch
    /\ b_printed = <<>>
    /\ b_trace = <<>>
    /\ b_exit = "none"
    /\ b_result = NoResult

\* the ctrlc handler runs
BuildsInterrupt ==
    /\ b_pc # "done"
    /\ b_interrupted' = HandlerStore(b_interrupted)
    /\ UNCHANGED <<b_format, b_pc, b_polls, b_fetch, b_printed, b_trace, b_exit,
                   b_result>>
    /\ UNCHANGED <<loop_vars, handler_vars, code_vars, cache_vars, cli_vars>>

\* top of the loop: if interrupted.load(..) { ..; break } and, after the
\* loop, Ok(String::new())
BuildsCheck ==
    /\ b_pc = "check"
    /\ is_interrupted(b_interrupted) \/ b_polls < MaxPolls
    /\ b_trace' = <<"check">>
    /\ IF is_interrupted(b_interrupted)
       THEN /\ b_pc' = "done"
            /\ b_exit' = "interrupted"
            /\ b_result' = OkEmpty
            /\ UNCHANGED b_polls
       ELSE /\ b_pc' = IF b_format = "Pretty" THEN "clear" ELSE "fetch"
            /\ b_polls' = b_polls + 1
            /\ UNCHANGED <<b_exit, b_result>>
    /\ UNCHANGED <<b_format, b_interrupted, b_fetch, b_printed>>
    /\ UNCHANGED <<loop_vars, handler_vars, code_vars, cache_vars, cli_vars>>

\* the loop is left because a write to standard output failed
StdoutFailed(w) ==
    /\ b_pc' = "done"
    /\ b_exit' = w
    /\ b_result' = WriteResult(w)

\* pretty mode: print!("\x1B[2J\x1B[1;1H"); stdout.flush()?;
ClearScreen(p, f) ==
    /\ b_pc = "clear"
    /\ b_trace' = Append(b_trace, "clear")
    /\ IF p # "ok" THEN StdoutFailed(p)
       ELSE IF f # "ok" THEN StdoutFailed(f)
       ELSE b_pc' = "fetch" /\ UNCHANGED <<b_exit, b_result>>
    /\ UNCHANGED <<b_format, b_interrupted, b_polls, b_fetch, b_printed>>
    /\ UNCHANGED <<loop_vars, handler_vars, code_vars, cache_vars, cli_vars>>

\* fetch_and_format_builds returns Ok(output); a non-empty output is
\* printed with println!
FetchBuildsOk(nonempty, p) ==
    /\ b_pc = "fetch"
    /\ b_trace' = Append(b_trace, "fetch")
    /\ b_fetch' = [tag |-> "ok", err |-> NoErr]
    /\ IF nonempty /\ p # "ok" THEN StdoutFailed(p)
       ELSE b_pc' = "footer" /\ UNCHANGED <<b_exit, b_result>>
    /\ UNCHANGED <<b_format, b_interrupted, b_polls, b_printed>>
    /\ UNCHANGED <<loop_vars, handler_vars, code_vars, cache_vars, cli_vars>>

\* variant: the error of the fetch returned with `?`
FetchErrResultPropagated(e) == ErrResult(e)

\* Err(e) => { eprintln!("{}: {}", "error".red(), e); }: nothing is
\* returned
FetchErrResult(e) == NoResult

\* fetch_and_format_builds returns Err(e)
FetchBuildsErr(e) ==
    /\ b_pc = "fetch"
    /\ b_trace' = Append(b_trace, "fetch")
    /\ b_fetch' = [tag |-> "err", err |-> e]
    /\ b_result' = FetchErrResult(e)
    /\ IF b_result'.tag = "Err"
       THEN b_pc' = "done" /\ b_exit' = "error" /\ UNCHANGED b_printed
       ELSE /\ b_pc' = "footer"
            /\ b_printed' = Append(b_printed, e)
            /\ UNCHANGED b_exit
    /\ UNCHANGED <<b_format, b_interrupted, b_polls>>
    /\ UNCHANGED <<loop_vars, handler_vars, code_vars, cache_vars, cli_vars>>

\* pretty mode: println!("... Last updated ..."); both modes:
\* stdout.flush()?;
LastUpdated(p, f) ==
    /\ b_pc = "footer"
    /\ b_trace' = Append(b_trace, "footer")
    /\ IF b_format = "Pretty" /\ p # "ok" THEN StdoutFailed(p)
       ELSE IF f # "ok" THEN StdoutFailed(f)
       ELSE b_pc' = "sleep" /\ UNCHANGED <<b_exit, b_result>>
    /\ UNCHANGED <<b_format, b_interrupted, b_polls, b_fetch, b_printed>>
    /\ UNCHANGED <<loop_vars, handler_vars, code_vars, cache_vars, cli_vars>>

\* thread::sleep(Duration::from_secs(args.interval))
BuildsSleep ==
    /\ b_pc = "sleep"
    /\ b_pc' = "check"
    /\ b_trace' = Append(b_trace, "sleep")
    /\ UNCHANGED <<b_format, b_interrupted, b_polls, b_fetch, b_printed, b_exit,
                   b_result>>
    /\ UNCHANGED <<loop_vars, handler_vars, code_vars, cache_vars, cli_vars>>

WatchNext ==
    \/ BuildsInterrupt
    \/ BuildsCheck
    \/ \E p \in PrintOutcomes, f \in FlushOutcomes : ClearScreen(p, f)
    \/ \E nonempty \in BOOLEAN, p \in PrintOutcomes : FetchBuildsOk(nonempty, p)
    \/ \E e \in BuildsErrors : FetchBuildsErr(e)
    \/ \E p \in PrintOutcomes, f \in FlushOutcomes : LastUpdated(p, f)
    \/ BuildsSleep

WatchSpec == WatchInit /\ [][WatchNext]_vars

\* C34: in watch_builds a failed fetch of the build list does not end the
\* loop and is not returned: the error is written to standard error and the
\* iteration goes on to the footer, then (unless a write to standard output
\* fails) to the sleep and to the next check.  The loop ends only at a
\* check that reads the flag as set, returning Ok with an empty string, or
\* on a failed write to standard output.
C34_FetchErrorNeverEndsLoop ==
    /\ [][(b_pc = "fetch" /\ b_fetch'.tag = "err" /\ b_trace' # b_trace)
          => (/\ b_pc' = "footer"
              /\ b_exit' = "none"
              /\ b_result' = NoResult
              /\ b_printed' = Append(b_printed, b_fetch'.err))]_vars
    /\ [][(b_pc = "footer" /\ b_fetch.tag = "err" /\ b_trace' # b_trace)
          => (b_pc' = "sleep" \/ b_exit' \in {"panic", "io"})]_vars
    /\ [][(b_pc = "sleep" /\ b_trace' # b_trace) => b_pc' = "check"]_vars
    /\ []((b_result.tag = "Err") => (b_exit = "io" /\ b_result.err = IoError))
    /\ []((b_pc = "done" /\ b_exit # "none") =>
            \/ /\ b_exit = "interrupted"
               /\ b_interrupted
               /\ b_trace = <<"check">>
               /\ b_result = OkEmpty
            \/ /\ b_exit \in {"panic", "io"}
               /\ b_trace[Len(b_trace)] \in {"clear", "fetch", "footer"}
               /\ (b_trace[Len(b_trace)] = "fetch") => b_fetch.tag = "ok")

\* every fetch of the run failed, each failure was printed, and the loop
\* went on until a check found the flag set
C34_Witness ==
    /\ b_polls = 3
    /\ Len(b_printed) = 3
    /\ b_printed[1] # b_printed[2]
    /\ b_pc = "done"
    /\ b_exit = "interrupted"
    /\ b_result = OkEmpty

====
